---- MODULE Spec2Model ----
(***************************************************************************)
(* TabindexManager (src/tabindex-fix.js): the tab-order normaliser, the    *)
(* tab-order audit, the focus trap and the mutation-observer driver, over  *)
(* a small live document tree.                                             *)
(*                                                                         *)
(* The document is the tree                                                *)
(*        1 body  (the default container)                                  *)
(*        |- 2    an element outside the region (opener / trigger)         *)
(*        `- 3    a region (dialog candidate)                              *)
(*            |- 4                                                         *)
(*            `- 5                                                         *)
(* Node numbers are document order, the order querySelectorAll returns.    *)
(* Time is counted in units of 50 ms (the smallest setTimeout delay).      *)
(* The page's wizard and its autocomplete input are kept beside the tree,  *)
(* each as one record of what their handlers read and write.               *)
(***************************************************************************)
EXTENDS Integers, Sequences, FiniteSets, TLC

VARIABLES
    container,   \* the node the selector this.container resolves to, 0 when none
    elem,        \* node -> markup that never changes: tag, role, class, handlers
    tabindex,    \* node -> value of the tabindex attribute, NoTab when absent
    hiddenStyle, \* node -> getComputedStyle(node) says display: none
    ariaHidden,  \* node -> aria-hidden="true"
    trapMarker,  \* node -> data-focus-trap-active is present
    removeFn,    \* node -> session stored in node._removeFocusTrap, 0 when unset
    dlgObs,      \* node -> the dialogObserver of detectAndHandleDialogs
    traps,       \* the closures made by setupFocusTrap, in creation order
    timers,      \* pending setTimeout callbacks, in scheduling order
    focus,       \* document.activeElement
    obsCount,    \* MutationObservers installed by setupMutationObserver
    obsPending,  \* how many of them hold undelivered mutation records
    relevant,    \* those records hold one that makes the callback process
    pass,        \* position of the observer callback: "idle" or "running"
    ext,         \* page-side mutations made so far
    last,        \* the operation that completed last
    pre,         \* the tabindex attributes before the last scan
    wiz,         \* the page's wizard: its _wizardState, steps, panels, live region
    combo        \* the page's autocomplete input, its list and the closure's activeIndex

domVars  == <<elem, tabindex, hiddenStyle, ariaHidden, trapMarker>>
trapVars == <<removeFn, dlgObs, traps, timers, focus>>
obsVars  == <<obsCount, obsPending, relevant, pass>>
vars     == <<container, elem, tabindex, hiddenStyle, ariaHidden, trapMarker, removeFn,
              dlgObs, traps, timers, focus, obsCount, obsPending, relevant,
              pass, ext,
              last, pre, wiz, combo>>

----------------------------------------------------------------------------
(* The document tree *)

Nodes == 1 .. 5

Body == 1

Opener == 2

Region == 3

Parent == <<0, 1, 1, 3, 3>>

RECURSIVE Ancestors(_)
Ancestors(n) ==
    IF Parent[n] = 0 THEN {} ELSE {Parent[n]} \cup Ancestors(Parent[n])

\* container.querySelectorAll(...) searches the descendants of container
Descendants(c) == {n \in Nodes : c \in Ancestors(n)}

\* the members of a set of nodes in document order
RECURSIVE InDocOrder(_)
InDocOrder(S) ==
    IF S = {} THEN <<>>
    ELSE LET m == CHOOSE x \in S : \A y \in S : x <= y
         IN  <<m>> \o InDocOrder(S \ {m})

\* hasAttribute('tabindex') is false
NoTab == -9

\* tabindex values the documents of the model use
TabValues == {NoTab, -1, 0, 1, 5}

----------------------------------------------------------------------------
(* Markup *)

Mk(t, r, c, k) == [tag |-> t, role |-> r, cls |-> c, onkey |-> k]

ALink       == Mk("a", "none", "none", FALSE)              \* <a href>
AButton     == Mk("button", "none", "none", FALSE)         \* <button>
PlainDiv    == Mk("div", "none", "none", FALSE)            \* <div>
KeyDiv      == Mk("div", "none", "none", TRUE)             \* <div onkeydown>
RoleDiv     == Mk("div", "button", "none", FALSE)          \* <div role=button>
ToggleDiv   == Mk("div", "none", "dropdown-toggle", FALSE) \* <div class=dropdown-toggle>
AccordDiv   == Mk("div", "none", "accordion-header", FALSE)
DialogDiv   == Mk("div", "dialog", "none", FALSE)          \* <div role=dialog>
ModalDiv    == Mk("div", "none", "modal-aria", FALSE)      \* <div class=modal aria-modal=true>
ListItem    == Mk("li", "none", "none", FALSE)             \* <li>
AlertDiv    == Mk("div", "alertdialog", "none", FALSE)     \* <div role=alertdialog>
CloseButton == Mk("button", "none", "close", FALSE)        \* <button class=close>

\* constructor defaults
fixNegativeTabindex == TRUE

fixHighTabindex == TRUE

ensureInteractiveElements == TRUE

enableMutationObserver == TRUE

supportWizardNavigation == TRUE

handleTooltipsAndDropdowns == TRUE

returnFocusOnDynamicContentClose == TRUE

focusFirstElementInDynamicContent == TRUE

\* element.matches(one of this.interactiveSelectors)
isInteractiveElement(n) ==
    \/ elem[n].tag \in {"a", "button"}
    \/ elem[n].role \in {"button", "dialog", "alertdialog"}
    \/ elem[n].cls \in {"dropdown-toggle", "accordion-header"}

\* element.matches(one of this.nonInteractiveWithTabindex)
matchesNonInteractiveWithTabindex(tab, n) ==
    elem[n].tag = "div" /\ tab[n] # NoTab

\* element.matches(one of dialogSelectors)
matchesDialogSelectors(n) ==
    elem[n].role \in {"dialog", "alertdialog"} \/ elem[n].cls = "modal-aria"

hasKeyboardEventListeners(n) == elem[n].onkey

hasRoleAttribute(n) == elem[n].role # "none"

----------------------------------------------------------------------------
(* Visibility *)

isVisuallyHidden(n) == hiddenStyle[n]

hasHiddenParent(n) ==
    \E p \in Ancestors(n) : isVisuallyHidden(p) \/ ariaHidden[p]

\* a faulty variant: the ancestors are not looked at
shouldBeRemovedFromTabOrder_noParent(n) ==
    isVisuallyHidden(n) \/ ariaHidden[n]

shouldBeRemovedFromTabOrder(n) ==
    \/ isVisuallyHidden(n) \/ hasHiddenParent(n)
    \/ ariaHidden[n]

----------------------------------------------------------------------------
(* Platform: which elements focus() can land on *)

\* an element under display: none is not rendered
isRendered(n) ==
    ~hiddenStyle[n] /\ \A p \in Ancestors(n) : ~hiddenStyle[p]

\* element.focus() takes effect on a rendered element that is natively
\* focusable or carries a tabindex attribute
isFocusable(tab, n) ==
    /\ isRendered(n)
    /\ elem[n].tag \in {"a", "button"} \/ tab[n] # NoTab

\* the effect of element.focus() on document.activeElement
focusCall(tab, cur, n) == IF isFocusable(tab, n) THEN n ELSE cur

----------------------------------------------------------------------------
(* The engine's state as one value, threaded through a handler's calls.    *)
(* wrote collects the nodes whose tabindex attribute the call has written. *)

World ==
    [tab |-> tabindex, marker |-> trapMarker, removeFn |-> removeFn,
     dlgObs |-> dlgObs, traps |-> traps, timers |-> timers, focus |-> focus,
     wrote |-> {}]

SetTab(w, S, v) ==
    [w EXCEPT !.tab = [n \in Nodes |-> IF n \in S THEN v ELSE w.tab[n]],
              !.wrote = w.wrote \cup S]

----------------------------------------------------------------------------
(* Tab-order normaliser *)

fixNegativeTabindexValues(w, c) ==
    SetTab(w, {n \in Descendants(c) :
                 /\ w.tab[n] = -1
                 /\ isInteractiveElement(n)
                 /\ ~shouldBeRemovedFromTabOrder(n)}, 0)

\* a faulty variant: hidden elements are skipped
fixHighTabindexValues_visibleOnly(w, c) ==
    SetTab(w, {n \in Descendants(c) :
                 w.tab[n] > 0 /\ ~shouldBeRemovedFromTabOrder(n)}, 0)

fixHighTabindexValues(w, c) ==
    SetTab(w, {n \in Descendants(c) : w.tab[n] # NoTab /\ w.tab[n] > 0}, 0)

makeInteractiveElementsTabbable(w, c) ==
    SetTab(w, {n \in Descendants(c) :
                 /\ isInteractiveElement(n)
                 /\ ~(isVisuallyHidden(n) \/ hasHiddenParent(n))
                 /\ w.tab[n] = NoTab}, 0)

\* a faulty variant: the attribute is reported but not removed
validateNonInteractiveElements_keep(w, c) == w

validateNonInteractiveElements(w, c) ==
    SetTab(w, {n \in Descendants(c) :
                 /\ matchesNonInteractiveWithTabindex(w.tab, n)
                 /\ w.tab[n] >= 0
                 /\ ~hasRoleAttribute(n)
                 /\ ~hasKeyboardEventListeners(n)}, NoTab)

----------------------------------------------------------------------------
(* Tab-order audit *)

\* the comparator handed to tabbableElements.sort
compareTabindex(a, b) ==
    IF a.tabindex > 0 /\ b.tabindex > 0 THEN a.tabindex - b.tabindex
    ELSE IF a.tabindex > 0 THEN -1
    ELSE IF b.tabindex > 0 THEN 1
    ELSE 0

\* Array.prototype.sort is stable: an entry goes behind its equals
RECURSIVE InsertSorted(_, _)
InsertSorted(s, x) ==
    IF s = <<>> THEN <<x>>
    ELSE IF compareTabindex(x, s[Len(s)]) < 0
         THEN Append(InsertSorted(SubSeq(s, 1, Len(s) - 1), x), s[Len(s)])
         ELSE Append(s, x)

RECURSIVE SortEntries(_)
SortEntries(s) ==
    IF s = <<>> THEN <<>>
    ELSE InsertSorted(SortEntries(SubSeq(s, 1, Len(s) - 1)), s[Len(s)])

RECURSIVE Entries(_, _)
Entries(tab, ns) ==
    IF ns = <<>> THEN <<>>
    ELSE <<[element |-> Head(ns),
            tabindex |-> IF tab[Head(ns)] = NoTab THEN 0 ELSE tab[Head(ns)]]>>
         \o Entries(tab, Tail(ns))

\* the array analyzeTabOrder logs
analyzeTabOrder(tab, c) ==
    LET withTabindex ==
            {n \in Descendants(c) :
                /\ tab[n] # NoTab
                /\ tab[n] >= 0
                /\ ~shouldBeRemovedFromTabOrder(n)}
        naturallyTabbable ==
            {n \in Descendants(c) :
                /\ isInteractiveElement(n)
                /\ tab[n] = NoTab
                /\ ~shouldBeRemovedFromTabOrder(n)}
    IN  SortEntries(Entries(tab, InDocOrder(withTabindex))
                    \o Entries(tab, InDocOrder(naturallyTabbable)))

----------------------------------------------------------------------------
(* Focus trap *)

\* setTimeout(..., 50) of the focus restoration, in 50 ms units
ReturnFocusDelay == 1

\* a faulty variant: the initial focus move waits longer than the restoration
TrapFocusDelay_late == ReturnFocusDelay + 1

\* setTimeout(..., 50) of the initial focus move
TrapFocusDelay == 1

\* setTimeout(..., 100) of the dynamicContentEvents listeners
ContentEventDelay == 2

\* setTimeout(..., 300) of the XMLHttpRequest wrapper
XhrDelay == 6

findTabbableElements(tab, c) ==
    InDocOrder({n \in Descendants(c) :
                  /\ isInteractiveElement(n)
                  /\ (IF tab[n] = NoTab THEN 0 ELSE tab[n]) >= 0
                  /\ ~shouldBeRemovedFromTabOrder(n)})

\* setupFocusTrap(modal, {returnFocusOnClose: ret, triggerElement: trigger});
\* trigger = 0 when the option is not given. The handle it returns is the
\* index of the new entry of traps.
setupFocusTrap(w, modal, ret, trigger, caller) ==
    LET previouslyFocusedElement == IF trigger # 0 THEN trigger ELSE w.focus
        found    == findTabbableElements(w.tab, modal)
        w1       == IF found = <<>> THEN SetTab(w, {modal}, 0) ELSE w
        tabbable == IF found = <<>> THEN <<modal>> ELSE found
        id       == Len(w.traps) + 1
    IN  [w1 EXCEPT
           !.traps = Append(@, [region |-> modal,
                                first  |-> tabbable[1],
                                lastEl |-> tabbable[Len(tabbable)],
                                prev   |-> previouslyFocusedElement,
                                ret    |-> ret,
                                active |-> TRUE,
                                by     |-> caller]),
           !.timers = Append(@, [rem |-> TrapFocusDelay, kind |-> "init",
                                 node |-> tabbable[1], sess |-> id])]

\* the remove function of handle i
remove(w, i) ==
    [w EXCEPT
       !.traps[i].active = FALSE,
       !.timers = IF w.traps[i].ret
                  THEN Append(@, [rem |-> ReturnFocusDelay, kind |-> "restore",
                                  node |-> w.traps[i].prev, sess |-> i])
                  ELSE @]

\* the updateTabbableElements function of handle i. firstTabbable and
\* lastTabbable are const bindings: the assignment to firstTabbable throws a
\* TypeError, so the boundaries stay as they are; only the local list
\* tabbableElements, which nothing else reads, is replaced before the throw.
updateTabbableElements(w, i) ==
    LET updatedElements == findTabbableElements(w.tab, w.traps[i].region)
    IN  [world |-> w, threw |-> updatedElements # <<>>]

\* a faulty variant: event.shiftKey is not looked at
handleKeyDown_forwardOnly(tab, k, s, shift) ==
    IF k.focus = s.lastEl
    THEN [focus |-> focusCall(tab, k.focus, s.first), prevented |-> TRUE]
    ELSE k

\* handleKeyDown of session s for Tab (shift = FALSE) and Shift+Tab;
\* k is [focus, prevented], the event's state as the listeners run
handleKeyDown(tab, k, s, shift) ==
    IF shift
    THEN IF k.focus = s.first
         THEN [focus |-> focusCall(tab, k.focus, s.lastEl), prevented |-> TRUE]
         ELSE k
    ELSE IF k.focus = s.lastEl
         THEN [focus |-> focusCall(tab, k.focus, s.first), prevented |-> TRUE]
         ELSE k

\* modalElement.querySelector('[aria-label="Close"], .close, .btn-close'):
\* the first match below the region, 0 when there is none
closeButton(region) ==
    LET found == {n \in Descendants(region) : elem[n].cls = "close"}
    IN  IF found = {} THEN 0 ELSE CHOOSE n \in found : \A m \in found : n <= m

\* handleKeyDown of session s for Escape: the node whose click() it calls,
\* 0 when it calls none
handleEscape(s) ==
    IF elem[s.region].cls = "modal-aria" \/ elem[s.region].role = "dialog"
    THEN closeButton(s.region)
    ELSE 0

----------------------------------------------------------------------------
(* Reconciliation: processDynamicContent and fix *)

RECURSIVE armDialogs(_, _)
armDialogs(w, ds) ==
    IF ds = <<>> THEN w
    ELSE LET d  == Head(ds)
             w1 == IF ~isVisuallyHidden(d) /\ ~w.marker[d]
                   THEN LET t == setupFocusTrap(
                                    [w EXCEPT !.marker[d] = TRUE], d,
                                    returnFocusOnDynamicContentClose, 0, "driver")
                        IN  [t EXCEPT
                               !.removeFn[d] = Len(t.traps),
                               !.dlgObs[d] = [on |-> TRUE, pending |-> FALSE]]
                   ELSE w
         IN  armDialogs(w1, Tail(ds))

detectAndHandleDialogs(w, c) ==
    armDialogs(w, InDocOrder({d \in Descendants(c) : matchesDialogSelectors(d)}))

\* the four normaliser passes shared by fix and processDynamicContent
normalise(w, c) ==
    LET w1 == IF fixNegativeTabindex THEN fixNegativeTabindexValues(w, c) ELSE w
        w2 == IF fixHighTabindex THEN fixHighTabindexValues(w1, c) ELSE w1
        w3 == IF ensureInteractiveElements
              THEN makeInteractiveElementsTabbable(w2, c) ELSE w2
    IN  validateNonInteractiveElements(w3, c)

processDynamicContent(w, c) == detectAndHandleDialogs(normalise(w, c), c)

\* the tabindex writes of setupTooltipAndDropdownHandlers
setupTooltipAndDropdownHandlers(w, c) ==
    SetTab(w, {n \in Descendants(c) :
                 elem[n].cls = "dropdown-toggle" /\ w.tab[n] = NoTab}, 0)

----------------------------------------------------------------------------
(* Platform: timers, microtasks, sequential focus navigation *)

\* bounds of the model
MaxTraps == 2

MaxTimers == 2

MaxExt == 2

MaxFix == 2

MaxCalls == 1

RECURSIVE MinRem(_)
MinRem(ts) ==
    IF Len(ts) = 1 THEN ts[1].rem
    ELSE LET m == MinRem(Tail(ts))
         IN  IF ts[1].rem <= m THEN ts[1].rem ELSE m

\* the timer that fires next: the earliest due, the first scheduled among equals
NextTimer(ts) ==
    CHOOSE i \in 1 .. Len(ts) :
        /\ ts[i].rem = MinRem(ts)
        /\ \A j \in 1 .. (i - 1) : ts[j].rem # MinRem(ts)

\* the timers left once timer i has fired, the time it waited having passed
AfterFiring(ts, i) ==
    LET rest == SubSeq(ts, 1, i - 1) \o SubSeq(ts, i + 1, Len(ts))
    IN  [j \in 1 .. Len(rest) |-> [rest[j] EXCEPT !.rem = @ - ts[i].rem]]

\* a faulty variant: other tasks may start while the observer callback runs
Busy_betweenCallbacks ==
    \/ obsPending > 0
    \/ \E d \in Nodes : dlgObs[d].pending

\* mutation-observer callbacks are microtasks: they run before any other task
Busy ==
    \/ obsPending > 0
    \/ pass = "running"
    \/ \E d \in Nodes : dlgObs[d].pending

\* the nodes the observer of setupMutationObserver watches
Observed ==
    IF container = 0 THEN {} ELSE {container} \cup Descendants(container)

RECURSIVE PathUp(_)
PathUp(n) == IF n = 0 THEN <<>> ELSE <<n>> \o PathUp(Parent[n])

\* the active keydown listeners a key pressed on target reaches, in the order
\* the event bubbles to them
RECURSIVE ListenersOn(_)
ListenersOn(path) ==
    IF path = <<>> THEN <<>>
    ELSE LET here == {i \in 1 .. Len(traps) :
                        traps[i].active /\ traps[i].region = Head(path)}
         IN  InDocOrder(here) \o ListenersOn(Tail(path))

RECURSIVE RunListeners(_, _, _)
RunListeners(k, ls, shift) ==
    IF ls = <<>> THEN k
    ELSE RunListeners(handleKeyDown(tabindex, k, traps[Head(ls)], shift),
                      Tail(ls), shift)

\* the browser's sequential focus order: positive tabindex first
SequentialOrder ==
    LET ns == {n \in Nodes \ {Body} :
                 /\ isFocusable(tabindex, n)
                 /\ (IF tabindex[n] = NoTab THEN 0 ELSE tabindex[n]) >= 0}
    IN  SortEntries(Entries(tabindex, InDocOrder(ns)))

\* where the browser's own Tab / Shift+Tab handling moves focus from f;
\* leaving the page at either end shows as document.activeElement = body
DefaultTabTarget(f, shift) ==
    LET ord == SequentialOrder
        at  == {i \in 1 .. Len(ord) : ord[i].element = f}
        fwd == {i \in 1 .. Len(ord) : ord[i].tabindex = 0 /\ ord[i].element > f}
        bwd == {i \in 1 .. Len(ord) : ord[i].tabindex = 0 /\ ord[i].element < f}
        pos == IF at # {}
               THEN (CHOOSE i \in at : TRUE) + (IF shift THEN -1 ELSE 1)
               ELSE IF f = Body
               THEN (IF shift THEN Len(ord) ELSE 1)
               ELSE IF shift
               THEN (IF bwd = {} THEN 0
                     ELSE CHOOSE i \in bwd : \A j \in bwd : j <= i)
               ELSE (IF fwd = {} THEN 0
                     ELSE CHOOSE i \in fwd : \A j \in fwd : i <= j)
    IN  IF pos \in 1 .. Len(ord) THEN ord[pos].element ELSE Body

----------------------------------------------------------------------------
(* The wizard: setupJspWizards and setupWizardNavigationSupport on one      *)
(* element that both select (class wizard, steps of class step). The record *)
(* holds what the handlers write on the steps, the panels and the live      *)
(* region, and _wizardState; where focus goes is not part of it. Steps and  *)
(* panels are numbered from 0 as in _wizardState.                           *)

MaxSteps == 3

NoWizard ==
    [present |-> FALSE, n |-> 0, p |-> 0, disabled |-> {}, processed |-> FALSE,
     keys |-> 0, cur |-> -1, cls |-> << >>, sel |-> << >>, pact |-> << >>,
     hid |-> << >>, say |-> << >>]

\* a wizard as the page's markup gives it: n steps, p panels, the steps in
\* dis carrying class disabled, no state, no class and no ARIA attribute yet
PageWizard(n, p, dis) ==
    [present |-> TRUE, n |-> n, p |-> p, disabled |-> dis, processed |-> FALSE,
     keys |-> 0, cur |-> -1,
     cls |-> [i \in 0 .. n - 1 |-> {}],
     sel |-> [i \in 0 .. n - 1 |-> "none"],
     pact |-> [i \in 0 .. p - 1 |-> FALSE],
     hid |-> [i \in 0 .. p - 1 |-> "none"],
     say |-> << >>]

StepIx(w) == 0 .. w.n - 1

PanelIx(w) == 0 .. w.p - 1

\* a faulty variant: the panels that are not shown keep their aria-hidden
showStep_keepPanels(w, newIndex) ==
    [w EXCEPT
       !.cls = [i \in StepIx(w) |->
                  IF i < newIndex
                  THEN (w.cls[i] \ {"active", "current"}) \cup {"completed"}
                  ELSE IF i = newIndex
                  THEN (w.cls[i] \cup {"active", "current"}) \ {"completed"}
                  ELSE w.cls[i] \ {"active", "current", "completed"}],
       !.sel = [i \in StepIx(w) |-> IF i = newIndex THEN "true" ELSE "false"],
       !.pact = [i \in PanelIx(w) |-> i = newIndex],
       !.hid = [i \in PanelIx(w) |-> IF i = newIndex THEN "false" ELSE w.hid[i]],
       !.cur = newIndex,
       !.say = <<newIndex + 1, w.n>>]

\* the body of navigateToStep for an accepted index: step classes and
\* aria-selected, panel class and aria-hidden, the index, the live region;
\* say is the live region's text, <<stepNumber, totalSteps>>
showStep(w, newIndex) ==
    [w EXCEPT
       !.cls = [i \in StepIx(w) |->
                  IF i < newIndex
                  THEN (w.cls[i] \ {"active", "current"}) \cup {"completed"}
                  ELSE IF i = newIndex
                  THEN (w.cls[i] \cup {"active", "current"}) \ {"completed"}
                  ELSE w.cls[i] \ {"active", "current", "completed"}],
       !.sel = [i \in StepIx(w) |-> IF i = newIndex THEN "true" ELSE "false"],
       !.pact = [i \in PanelIx(w) |-> i = newIndex],
       !.hid = [i \in PanelIx(w) |-> IF i = newIndex THEN "false" ELSE "true"],
       !.cur = newIndex,
       !.say = <<newIndex + 1, w.n>>]

\* a faulty variant: the index one past the last step is accepted
navigateToStep_offByOne(w, newIndex, focusManagement) ==
    IF newIndex < 0 \/ newIndex > w.n THEN w ELSE showStep(w, newIndex)

\* navigateToStep(newIndex, focusManagement) of wizard w
navigateToStep(w, newIndex, focusManagement) ==
    IF newIndex < 0 \/ newIndex >= w.n THEN w ELSE showStep(w, newIndex)

\* setupJspWizards() for wizard w: skipped when data-wizard-processed is set
setupJspWizards(w) ==
    IF ~w.present \/ w.processed THEN w
    ELSE navigateToStep([w EXCEPT !.processed = TRUE, !.cur = 0], 0, FALSE)

\* setupWizardNavigationSupport(container) for wizard w: every call adds a
\* keydown listener to every step
setupWizardNavigationSupport(w) ==
    IF w.present THEN [w EXCEPT !.keys = @ + 1] ELSE w

\* the click listeners of step k: the one setupJspWizards added, if the step
\* was not disabled
stepClick(w, k) ==
    IF w.processed /\ k \notin w.disabled THEN navigateToStep(w, k, TRUE) ELSE w

\* one keydown listener of setupWizardNavigationSupport on step k
supportStepKeydown(w, k, key) ==
    IF key \in {"ArrowRight", "ArrowLeft"}
    THEN LET targetIndex == k + (IF key = "ArrowRight" THEN 1 ELSE -1)
         IN  IF targetIndex >= 0 /\ targetIndex < w.n
                /\ targetIndex \notin w.disabled
             THEN stepClick(w, targetIndex)
             ELSE w
    ELSE w

RECURSIVE supportStepListeners(_, _, _, _)
supportStepListeners(w, k, key, count) ==
    IF count = 0 THEN w
    ELSE supportStepListeners(supportStepKeydown(w, k, key), k, key, count - 1)

\* the keydown listener setupJspWizards added to step k
jspStepKeydown(w, k, key) ==
    IF w.processed /\ k \notin w.disabled /\ key = "Enter"
    THEN navigateToStep(w, k, TRUE) ELSE w

\* the keydown listener setupJspWizards added to the wizard, for an event
\* whose target is a step
wizardKeydown(w, key) ==
    IF ~w.processed THEN w
    ELSE IF key \in {"ArrowRight", "ArrowDown"}
    THEN navigateToStep(w, w.cur + 1, TRUE)
    ELSE IF key \in {"ArrowLeft", "ArrowUp"}
    THEN navigateToStep(w, w.cur - 1, TRUE)
    ELSE w

\* a keydown event on step k: the listeners on the step run, then the event
\* bubbles to the wizard
stepKeydown(w, k, key) ==
    wizardKeydown(
        jspStepKeydown(supportStepListeners(w, k, key, w.keys), k, key), key)

----------------------------------------------------------------------------
(* The autocomplete: setupAccessibleAutocomplete on an input whose list is  *)
(* its next sibling. Options are numbered from 0 as in optionElements; the  *)
(* id an option gets is named by its number.                                *)

MaxOptions == 2

\* setTimeout(..., 150) of the blur listener, in 50 ms units
BlurDelay == 3

NoCombo ==
    [present |-> FALSE, n |-> 0, showOnFocus |-> FALSE, processed |-> FALSE,
     expanded |-> "none", shown |-> FALSE, active |-> -1, ad |-> -1,
     sel |-> << >>, value |-> -1, focused |-> FALSE]

\* an input with a list of n options as the page's markup gives it:
\*   expanded  the aria-expanded attribute, "none" when absent
\*   shown     the list's style.display is not 'none'
\*   active    the closure's activeIndex
\*   ad        the option named by aria-activedescendant, -1 when absent
\*   sel       option -> its aria-selected attribute, "none" when absent
\*   value     the option whose text is input.value, -1 for typed text
PageCombo(n, onFocus, visible) ==
    [present |-> TRUE, n |-> n, showOnFocus |-> onFocus, processed |-> FALSE,
     expanded |-> "none", shown |-> visible, active |-> -1, ad |-> -1,
     sel |-> [i \in 0 .. n - 1 |-> "none"], value |-> -1, focused |-> FALSE]

OptionIx(c) == 0 .. c.n - 1

\* setupAccessibleAutocomplete(container) for input c: skipped when
\* data-autocomplete-processed is set
setupAccessibleAutocomplete(c) ==
    IF ~c.present \/ c.processed THEN c
    ELSE [c EXCEPT !.processed = TRUE,
                   !.expanded = IF @ = "none" THEN "false" ELSE @]

\* the three statements every closing branch repeats: aria-expanded="false",
\* display: none, activeIndex = -1
collapse(c) ==
    [c EXCEPT !.expanded = "false", !.shown = FALSE, !.active = -1]

updateActiveOption(c) ==
    [c EXCEPT !.sel = [i \in OptionIx(c) |->
                         IF i = c.active THEN "true" ELSE "false"],
              !.ad = IF c.active >= 0 THEN c.active ELSE -1]

Min(a, b) == IF a < b THEN a ELSE b

Max(a, b) == IF a > b THEN a ELSE b

\* the input's keydown listener
comboKeydown(c, key) ==
    IF key = "ArrowDown"
    THEN updateActiveOption(
             [c EXCEPT !.expanded = "true", !.shown = IF c.expanded # "true"
                                                     THEN TRUE ELSE @,
                       !.active = Min(c.active + 1, c.n - 1)])
    ELSE IF key = "ArrowUp"
    THEN LET c1 == updateActiveOption(
                       [c EXCEPT !.active = Max(c.active - 1, -1)])
         IN  IF c1.active = -1
             THEN [c1 EXCEPT !.expanded = "false", !.shown = FALSE]
             ELSE c1
    ELSE IF key = "Enter" /\ c.active >= 0
    THEN collapse([c EXCEPT !.value = c.active])
    ELSE IF key = "Escape"
    THEN collapse(c)
    ELSE c

\* the input's focus listener
comboFocus(c) ==
    IF c.showOnFocus THEN [c EXCEPT !.expanded = "true", !.shown = TRUE] ELSE c

\* the click listener of option i; input.focus() runs the focus listener when
\* the input did not have focus
optionClick(c, i) ==
    LET c1 == [collapse([c EXCEPT !.value = i]) EXCEPT !.focused = TRUE]
    IN  IF c.focused THEN c1 ELSE comboFocus(c1)

\* the mouseover listener of option i
optionMouseover(c, i) == updateActiveOption([c EXCEPT !.active = i])


----------------------------------------------------------------------------
(* Actions *)

Commit(w) ==
    /\ tabindex' = w.tab
    /\ trapMarker' = w.marker
    /\ removeFn' = w.removeFn
    /\ dlgObs' = w.dlgObs
    /\ traps' = w.traps
    /\ timers' = w.timers
    /\ focus' = w.focus

WithinBounds(w) == Len(w.traps) <= MaxTraps /\ Len(w.timers) <= MaxTimers

\* one more session and one more timer fit: the observer callbacks that an
\* operation sets off arm at most one region and schedule at most one timer
Room == Len(traps) < MaxTraps /\ Len(timers) < MaxTimers

RoomAfter(w) ==
    (obsCount > 0 /\ w.wrote \cap Observed # {})
        => Len(w.traps) < MaxTraps /\ Len(w.timers) < MaxTimers

\* attribute writes inside the observed container queue a record with every
\* installed observer
Notify(w) ==
    /\ obsPending' = IF w.wrote \cap Observed # {} /\ obsCount > 0
                     THEN obsCount ELSE obsPending
    /\ relevant' = IF w.wrote \cap Observed # {} /\ obsCount > 0
                   THEN TRUE ELSE relevant

Did(o, n, i, f) == [op |-> o, node |-> n, sess |-> i, flag |-> f]

\* tabManager.fix() when document.querySelector(this.container) finds a node
FixCall ==
    /\ ~Busy
    /\ container # 0
    /\ obsCount < MaxFix
    /\ Room
    /\ \E wA \in {normalise(World, container)} :
        \E wB \in {IF handleTooltipsAndDropdowns
                    THEN setupTooltipAndDropdownHandlers(
                             [wA EXCEPT !.wrote = {}], container)
                    ELSE [wA EXCEPT !.wrote = {}]} :
        LET n == IF enableMutationObserver THEN obsCount + 1 ELSE obsCount
        IN /\ Commit(wB)
           /\ obsCount' = n
           /\ obsPending' = IF wB.wrote \cap Observed # {} /\ n > 0 THEN n
                            ELSE IF wA.wrote \cap Observed # {} /\ obsCount > 0
                            THEN obsCount
                            ELSE obsPending
           /\ relevant' = (obsPending' > 0)
    /\ wiz' = IF supportWizardNavigation THEN setupWizardNavigationSupport(wiz)
              ELSE wiz
    /\ last' = Did("fix", container, 0, FALSE)
    /\ pre' = tabindex
    /\ UNCHANGED <<combo, container, elem, hiddenStyle, ariaHidden, pass, ext>>

\* tabManager.processDynamicContent(c)
ScanCall(c) ==
    /\ ~Busy
    /\ \E w \in {processDynamicContent(World, c)} :
          WithinBounds(w) /\ RoomAfter(w) /\ Commit(w) /\ Notify(w)
    /\ last' = Did("scan", c, 0, FALSE)
    /\ pre' = tabindex
    /\ UNCHANGED <<wiz, combo, container, elem, hiddenStyle, ariaHidden, obsCount, pass, ext>>

\* a faulty variant: the audit runs the normaliser before it lists
AuditCall_normalising(c) ==
    /\ ~Busy
    /\ \E w \in {normalise(World, c)} : Commit(w) /\ Notify(w)
    /\ last' = Did("audit", c, 0, FALSE)
    /\ UNCHANGED <<wiz, combo, container, elem, hiddenStyle, ariaHidden, obsCount, pass, ext, pre>>

\* tabManager.analyzeTabOrder(c): reads attributes and computed styles, sorts
\* a local array and logs it
AuditCall(c) ==
    /\ ~Busy
    /\ analyzeTabOrder(tabindex, c) \in Seq([element : Nodes, tabindex : Nat])
    /\ last' = Did("audit", c, 0, FALSE)
    /\ UNCHANGED <<wiz, combo, container, domVars, trapVars, obsVars, ext, pre>>

\* tabManager.validateNonInteractiveElements(c) called on its own
PruneCall(c) ==
    /\ ~Busy
    /\ \E w \in {validateNonInteractiveElements(World, c)} :
          Commit(w) /\ Notify(w)
    /\ last' = Did("prune", c, 0, FALSE)
    /\ pre' = tabindex
    /\ UNCHANGED <<wiz, combo, container, elem, hiddenStyle, ariaHidden, obsCount, pass, ext>>

\* the records of one observer are delivered: its callback starts, and goes
\* on to processDynamicContent if one of the records sets shouldProcess
ObserverDeliver ==
    /\ obsPending > 0
    /\ pass = "idle"
    /\ obsPending' = obsPending - 1
    /\ relevant' = (relevant /\ obsPending > 1)
    /\ pass' = IF relevant THEN "running" ELSE "idle"
    /\ UNCHANGED <<wiz, combo, container, domVars, trapVars, obsCount, ext, last, pre>>

\* the callback of setupMutationObserver: every delivered record is relevant
\* (the attributeFilter lists the relevant attributes only)
ObserverPass ==
    /\ pass = "running"
    /\ \E w \in {processDynamicContent(World, container)} :
          Commit(w) /\ Notify(w)
    /\ pass' = "idle"
    /\ last' = Did("pass", container, 0, FALSE)
    /\ pre' = tabindex
    /\ UNCHANGED <<wiz, combo, container, elem, hiddenStyle, ariaHidden, obsCount, ext>>

\* tabManager.setupFocusTrap(modal, {returnFocusOnClose: ret, triggerElement: trigger})
TrapCall(modal, ret, trigger) ==
    /\ ~Busy
    /\ Cardinality({i \in 1 .. Len(traps) : traps[i].by = "caller"}) < MaxCalls
    /\ \E w \in {setupFocusTrap(World, modal, ret, trigger, "caller")} :
          /\ WithinBounds(w) /\ RoomAfter(w) /\ Commit(w) /\ Notify(w)
          /\ last' = Did("trap", modal, Len(w.traps), FALSE)
    /\ UNCHANGED <<wiz, combo, container, elem, hiddenStyle, ariaHidden, obsCount, pass, ext, pre>>

\* handle.remove() by the caller that holds the handle of session i
ReleaseCall(i) ==
    /\ ~Busy
    /\ i <= Len(traps)
    /\ traps[i].by = "caller"
    /\ \E w \in {remove(World, i)} : WithinBounds(w) /\ Commit(w)
    /\ last' = Did("release", 0, i, FALSE)
    /\ UNCHANGED <<wiz, combo, container, elem, hiddenStyle, ariaHidden, obsVars, ext, pre>>

\* handle.updateTabbableElements() by the caller that holds the handle of
\* session i; last.flag tells whether the call threw
RefreshCall(i) ==
    /\ ~Busy
    /\ i <= Len(traps)
    /\ traps[i].by = "caller"
    /\ \E r \in {updateTabbableElements(World, i)} :
          /\ Commit(r.world)
          /\ last' = Did("refresh", 0, i, r.threw)
    /\ UNCHANGED <<wiz, combo, container, elem, hiddenStyle, ariaHidden, obsVars, ext, pre>>

\* the callback of the dialogObserver that detectAndHandleDialogs put on d
DialogObserverCallback(d) ==
    /\ dlgObs[d].pending
    /\ pass = "idle"
    /\ \E w0 \in {World} :
        \E w \in {IF isVisuallyHidden(d) \/ ariaHidden[d]
                   THEN LET w1 == IF w0.removeFn[d] # 0
                                  THEN remove(w0, w0.removeFn[d]) ELSE w0
                        IN  [w1 EXCEPT
                               !.removeFn[d] = 0,
                               !.marker[d] = FALSE,
                               !.dlgObs[d] = [on |-> FALSE, pending |-> FALSE]]
                   ELSE [w0 EXCEPT !.dlgObs[d].pending = FALSE]} :
        Commit(w)
    /\ last' = Did("dialogObserver", d, 0, FALSE)
    /\ UNCHANGED <<wiz, combo, container, elem, hiddenStyle, ariaHidden, obsVars, ext, pre>>

\* the next pending setTimeout callback runs: firstTabbable.focus() or
\* previouslyFocusedElement.focus()
FireTimer ==
    /\ ~Busy
    /\ timers # <<>>
    /\ timers[NextTimer(timers)].kind \in {"init", "restore"}
    /\ LET i == NextTimer(timers)
           t == timers[i]
       IN  /\ timers' = AfterFiring(timers, i)
           /\ focus' = focusCall(tabindex, focus, t.node)
           /\ last' = Did(t.kind, 0, t.sess, FALSE)
    /\ UNCHANGED <<wiz, combo, container, domVars, removeFn, dlgObs, traps, obsVars, ext, pre>>

\* a faulty variant: fix() falls back to document.body
FixCallNoContainer_onBody ==
    /\ ~Busy
    /\ container = 0
    /\ \E w \in {normalise(World, Body)} : Commit(w)
    /\ last' = Did("fix", 0, 0, TRUE)
    /\ pre' = tabindex
    /\ UNCHANGED <<wiz, combo, container, elem, hiddenStyle, ariaHidden, obsVars, ext>>

\* fix() when document.querySelector(this.container) finds nothing:
\* console.error and return; last.flag tells that the error was reported
FixCallNoContainer ==
    /\ ~Busy
    /\ container = 0
    /\ last' = Did("fix", 0, 0, TRUE)
    /\ UNCHANGED <<wiz, combo, container, domVars, trapVars, obsVars, ext, pre>>

\* an XMLHttpRequest of the page reaches readyState 4: every wrapper that
\* setupDynamicContentHandlers put around XMLHttpRequest.prototype.send (one
\* for each fix() that found its container) schedules
\* processDynamicContent(document.body)
XhrComplete ==
    /\ ~Busy
    /\ obsCount > 0
    /\ Len(timers) + obsCount <= MaxTimers
    /\ Len(traps) < MaxTraps
    /\ timers' = timers \o [k \in 1 .. obsCount |->
                     [rem |-> XhrDelay, kind |-> "xhr", node |-> Body, sess |-> 0]]
    /\ last' = Did("readyState4", 0, 0, FALSE)
    /\ UNCHANGED <<wiz, combo, container, domVars, removeFn, dlgObs, traps, focus, obsVars,
                   ext, pre>>

\* one of the dynamicContentEvents, dispatched on target, reaches the
\* listeners that setupDynamicContentHandlers put on document
ContentEvent(target) ==
    /\ ~Busy
    /\ obsCount > 0
    /\ Len(timers) + obsCount <= MaxTimers
    /\ Len(traps) < MaxTraps
    /\ timers' = timers \o [k \in 1 .. obsCount |->
                     [rem |-> ContentEventDelay, kind |-> "content",
                      node |-> target, sess |-> 0]]
    /\ last' = Did("event", target, 0, FALSE)
    /\ UNCHANGED <<wiz, combo, container, domVars, removeFn, dlgObs, traps, focus, obsVars,
                   ext, pre>>

\* the next pending setTimeout callback is one of setupDynamicContentHandlers:
\* processDynamicContent(t.node) and, for a content event, focus on the first
\* tabbable element of the target
FireScanTimer ==
    /\ ~Busy
    /\ timers # <<>>
    /\ timers[NextTimer(timers)].kind \in {"xhr", "content"}
    /\ \E t \in {timers[NextTimer(timers)]} :
        \E w \in {processDynamicContent(
                     [World EXCEPT
                        !.timers = AfterFiring(timers, NextTimer(timers))],
                     t.node)} :
        \E m \in {findTabbableElements(w.tab, t.node)} :
          /\ Commit([w EXCEPT !.focus =
                       IF t.kind = "content" /\ focusFirstElementInDynamicContent
                          /\ m # <<>>
                       THEN focusCall(w.tab, w.focus, m[1]) ELSE w.focus])
          /\ Notify(w)
          /\ last' = Did(t.kind, t.node, 0, FALSE)
    /\ pre' = tabindex
    /\ UNCHANGED <<wiz, combo, container, elem, hiddenStyle, ariaHidden, obsCount, pass, ext>>

\* the user presses Tab (shift = FALSE) or Shift+Tab on the focused element
KeyDown(shift) ==
    /\ ~Busy
    /\ LET k == RunListeners([focus |-> focus, prevented |-> FALSE],
                             ListenersOn(PathUp(focus)), shift)
       IN  /\ focus' = IF k.prevented THEN k.focus
                       ELSE DefaultTabTarget(k.focus, shift)
           /\ last' = Did(IF shift THEN "ShiftTab" ELSE "Tab", 0, 0,
                          k.prevented)
    /\ UNCHANGED <<wiz, combo, container, domVars, removeFn, dlgObs, traps, timers, obsVars, ext, pre>>

\* the user presses Escape on the focused element: the keydown listeners it
\* reaches run; last.node is the close control that was clicked (the one
\* clicked last when several listeners click), last.flag whether any was
EscapeKey ==
    /\ ~Busy
    /\ LET ls == ListenersOn(PathUp(focus))
           clicked == {handleEscape(traps[ls[j]]) : j \in 1 .. Len(ls)} \ {0}
       IN  last' = Did("Escape",
                       IF clicked = {} THEN 0
                       ELSE CHOOSE n \in clicked : \A m \in clicked : n >= m,
                       0, clicked # {})
    /\ UNCHANGED <<wiz, combo, container, domVars, trapVars, obsVars, ext, pre>>

\* the user moves focus to n with the pointer
UserFocus(n) ==
    /\ ~Busy
    /\ n # Body /\ n # focus
    /\ isFocusable(tabindex, n)
    /\ focus' = n
    /\ last' = Did("page", 0, 0, FALSE)
    /\ UNCHANGED <<wiz, combo, container, domVars, removeFn, dlgObs, traps, timers, obsVars, ext, pre>>

\* page code toggles display: none on n through its style attribute: the
\* observers of n are told, and a focused element that stops being rendered
\* loses focus to the body
PageSetHidden(n, h) ==
    /\ ~Busy
    /\ ext < MaxExt
    /\ (obsCount > 0 \/ dlgObs[n].on) => Room
    /\ n # Body
    /\ hiddenStyle[n] # h
    /\ hiddenStyle' = [hiddenStyle EXCEPT ![n] = h]
    /\ ext' = ext + 1
    /\ obsPending' = IF n \in Observed THEN obsCount ELSE obsPending
    /\ relevant' = (obsPending' > 0)
    /\ dlgObs' = [dlgObs EXCEPT ![n].pending = dlgObs[n].on]
    /\ focus' = IF h /\ focus \in ({n} \cup Descendants(n)) THEN Body ELSE focus
    /\ last' = Did("page", 0, 0, FALSE)
    /\ UNCHANGED <<wiz, combo, container, elem, tabindex, ariaHidden, trapMarker, removeFn, traps,
                   timers, obsCount, pass, pre>>

\* page code inserts (added) or removes an element without focus relevance,
\* such as a line break, somewhere in the document: a childList record
\* for every observer whose container holds the place
PageChildList(added) ==
    /\ ~Busy
    /\ ext < MaxExt
    /\ obsCount > 0
    /\ ext' = ext + 1
    /\ obsPending' = obsCount
    /\ relevant' = added
    /\ last' = Did(IF added THEN "inserted" ELSE "removed", 0, 0, FALSE)
    /\ UNCHANGED <<wiz, combo, container, domVars, trapVars, obsCount, pass, pre>>

\* page code sets or removes aria-hidden="true" on n: the observers of n are
\* told (aria-hidden is in both attribute filters); rendering and focus stay
PageSetAriaHidden(n, h) ==
    /\ ~Busy
    /\ ext < MaxExt
    /\ (obsCount > 0 \/ dlgObs[n].on) => Room
    /\ n # Body
    /\ ariaHidden[n] # h
    /\ ariaHidden' = [ariaHidden EXCEPT ![n] = h]
    /\ ext' = ext + 1
    /\ obsPending' = IF n \in Observed THEN obsCount ELSE obsPending
    /\ relevant' = (obsPending' > 0)
    /\ dlgObs' = [dlgObs EXCEPT ![n].pending = dlgObs[n].on]
    /\ last' = Did("page", 0, 0, FALSE)
    /\ UNCHANGED <<wiz, combo, container, elem, tabindex, hiddenStyle, trapMarker, removeFn, traps,
                   timers, focus, obsCount, pass, pre>>

\* setTimeout(..., 100) of the modal trigger's click listener
ModalOpenDelay == 2

\* the close controls that the trigger's handler finds in the target modal:
\* targetModal.querySelectorAll('.close, .modal-close, ..., .btn-close, ...')
closeButtons(region) == {n \in Descendants(region) : elem[n].cls = "close"}

\* the click listeners on close control b, in the order they were added: one
\* for every time the trigger's timer ran on a modal that holds b; each is
\* named by the modal whose _removeFocusTrap it calls
closeListeners(w, b) ==
    SelectSeq([i \in 1 .. Len(w.traps) |->
                  IF w.traps[i].by = "jsp" /\ b \in closeButtons(w.traps[i].region)
                  THEN w.traps[i].region ELSE 0],
              LAMBDA r : r # 0)

\* the listeners ls run in turn: if (targetModal._removeFocusTrap) call it
RECURSIVE runCloseListeners(_, _)
runCloseListeners(w, ls) ==
    IF ls = <<>> THEN w
    ELSE runCloseListeners(IF w.removeFn[Head(ls)] # 0
                           THEN remove(w, w.removeFn[Head(ls)]) ELSE w,
                           Tail(ls))

\* setupJspModalHandling: the user clicks the trigger (the opener, whose
\* data-target is the region); the listener defers the set-up by 100 ms
TriggerClick ==
    /\ ~Busy
    /\ Room
    /\ timers' = Append(timers, [rem |-> ModalOpenDelay, kind |-> "open",
                                 node |-> Region, sess |-> 0])
    /\ last' = Did("click", Opener, 0, FALSE)
    /\ UNCHANGED <<wiz, combo, container, domVars, removeFn, dlgObs, traps, focus, obsVars,
                   ext, pre>>

\* the deferred set-up of the trigger's listener: arm the target modal, keep
\* the handle's remove in targetModal._removeFocusTrap, add a click listener
\* to every close control
FireOpenTimer ==
    /\ ~Busy
    /\ timers # <<>>
    /\ timers[NextTimer(timers)].kind = "open"
    /\ \E t \in {timers[NextTimer(timers)]} :
        \E w \in {setupFocusTrap(
                     [World EXCEPT
                        !.timers = AfterFiring(timers, NextTimer(timers))],
                     t.node, TRUE, Opener, "jsp")} :
          /\ WithinBounds(w) /\ RoomAfter(w)
          /\ Commit([w EXCEPT !.removeFn[t.node] = Len(w.traps)])
          /\ Notify(w)
          /\ last' = Did("open", t.node, Len(w.traps), FALSE)
    /\ UNCHANGED <<wiz, combo, container, elem, hiddenStyle, ariaHidden, obsCount, pass, ext, pre>>

\* the user clicks close control b: its click listeners run
CloseClick(b) ==
    /\ ~Busy
    /\ elem[b].cls = "close"
    /\ isRendered(b)
    /\ \E w \in {runCloseListeners(World, closeListeners(World, b))} :
          /\ WithinBounds(w) /\ Commit(w) /\ Notify(w)
    /\ last' = Did("close", b, 0, FALSE)
    /\ UNCHANGED <<wiz, combo, container, elem, hiddenStyle, ariaHidden, obsCount, pass, ext, pre>>

\* tabManager.setupJspWizards()
SetupJspWizardsCall ==
    /\ ~Busy
    /\ wiz.present
    /\ wiz' = setupJspWizards(wiz)
    /\ last' = Did("wizards", 0, 0, wiz.processed)
    /\ UNCHANGED <<combo, container, domVars, trapVars, obsVars, ext, pre>>

\* the user clicks step k
StepClick(k) ==
    /\ ~Busy
    /\ k \in StepIx(wiz)
    /\ wiz' = stepClick(wiz, k)
    /\ last' = Did("step", k, 0, FALSE)
    /\ UNCHANGED <<combo, container, domVars, trapVars, obsVars, ext, pre>>

WizardKeys == {"Enter", "ArrowRight", "ArrowLeft", "ArrowDown", "ArrowUp"}

\* the user presses key with focus on step k
StepKey(k, key) ==
    /\ ~Busy
    /\ k \in StepIx(wiz) \ wiz.disabled
    /\ wiz' = stepKeydown(wiz, k, key)
    /\ last' = Did(key, k, 0, FALSE)
    /\ UNCHANGED <<combo, container, domVars, trapVars, obsVars, ext, pre>>

\* the user clicks a next button (dir = 1) or a previous button (dir = -1);
\* last.flag tells that the index asked for was not the index of a step
StepButtonClick(dir) ==
    /\ ~Busy
    /\ wiz.processed
    /\ wiz' = navigateToStep(wiz, wiz.cur + dir, TRUE)
    /\ last' = Did(IF dir = 1 THEN "next" ELSE "prev", 0, 0,
                   wiz.cur + dir \notin StepIx(wiz))
    /\ UNCHANGED <<combo, container, domVars, trapVars, obsVars, ext, pre>>

\* tabManager.setupAccessibleAutocomplete(document.body)
SetupAutocompleteCall ==
    /\ ~Busy
    /\ combo.present
    /\ combo' = setupAccessibleAutocomplete(combo)
    /\ last' = Did("autocomplete", 0, 0, combo.processed)
    /\ UNCHANGED <<wiz, container, domVars, trapVars, obsVars, ext, pre>>

ComboKeys == {"ArrowDown", "ArrowUp", "Enter", "Escape"}

\* the user presses key in the input
ComboKey(key) ==
    /\ ~Busy
    /\ combo.processed /\ combo.focused
    /\ combo' = comboKeydown(combo, key)
    /\ last' = Did(key, 0, 0, FALSE)
    /\ UNCHANGED <<wiz, container, domVars, trapVars, obsVars, ext, pre>>

\* the user moves focus into the input
ComboFocus ==
    /\ ~Busy
    /\ combo.present /\ ~combo.focused
    /\ combo' = IF combo.processed
                THEN comboFocus([combo EXCEPT !.focused = TRUE])
                ELSE [combo EXCEPT !.focused = TRUE]
    /\ last' = Did("focus", 0, 0, FALSE)
    /\ UNCHANGED <<wiz, container, domVars, trapVars, obsVars, ext, pre>>

\* focus leaves the input, for an element of the list (toList) or for another
\* one: the blur listener defers the closing unless focus went to the list
ComboBlur(toList) ==
    /\ ~Busy
    /\ combo.focused
    /\ (combo.processed /\ ~toList) => Len(timers) < MaxTimers
    /\ toList => combo.shown
    /\ combo' = [combo EXCEPT !.focused = FALSE]
    /\ timers' = IF combo.processed /\ ~toList
                 THEN Append(timers, [rem |-> BlurDelay, kind |-> "blur",
                                      node |-> 0, sess |-> 0])
                 ELSE timers
    /\ last' = Did("blur", 0, 0, toList)
    /\ UNCHANGED <<wiz, container, domVars, removeFn, dlgObs, traps, focus,
                   obsVars, ext, pre>>

\* the deferred closing of the blur listener
FireBlurTimer ==
    /\ ~Busy
    /\ timers # <<>>
    /\ timers[NextTimer(timers)].kind = "blur"
    /\ timers' = AfterFiring(timers, NextTimer(timers))
    /\ combo' = collapse(combo)
    /\ last' = Did("blurred", 0, 0, FALSE)
    /\ UNCHANGED <<wiz, container, domVars, removeFn, dlgObs, traps, focus,
                   obsVars, ext, pre>>

\* the user clicks option i of the displayed list
OptionClick(i) ==
    /\ ~Busy
    /\ combo.processed /\ combo.shown
    /\ i \in OptionIx(combo)
    /\ combo' = optionClick(combo, i)
    /\ last' = Did("option", i, 0, FALSE)
    /\ UNCHANGED <<wiz, container, domVars, trapVars, obsVars, ext, pre>>

\* the pointer moves over option i of the displayed list
OptionMouseover(i) ==
    /\ ~Busy
    /\ combo.processed /\ combo.shown
    /\ i \in OptionIx(combo)
    /\ combo' = optionMouseover(combo, i)
    /\ last' = Did("mouseover", i, 0, FALSE)
    /\ UNCHANGED <<wiz, container, domVars, trapVars, obsVars, ext, pre>>

----------------------------------------------------------------------------
(* Specifications *)

BodyEl == Mk("body", "none", "none", FALSE)

AllOf(v) == [n \in Nodes |-> v]

\* the engine after construction: nothing armed, scheduled or observed
EngineStart ==
    /\ trapMarker = AllOf(FALSE)
    /\ removeFn = AllOf(0)
    /\ dlgObs = AllOf([on |-> FALSE, pending |-> FALSE])
    /\ traps = <<>>
    /\ timers = <<>>
    /\ focus = Body
    /\ obsCount = 0
    /\ obsPending = 0
    /\ relevant = FALSE
    /\ pass = "idle"
    /\ ext = 0
    /\ last = Did("new", 0, 0, FALSE)
    /\ pre = tabindex

\* a page without a wizard and without an autocomplete input
NoWidgets == wiz = NoWizard /\ combo = NoCombo

\* the default configuration: container 'body'
InitEngine == container = Body /\ NoWidgets /\ EngineStart

ContainerMarkup == {PlainDiv, KeyDiv, RoleDiv, DialogDiv, ModalDiv, ListItem}

LeafMarkup == {ALink, PlainDiv, KeyDiv, RoleDiv, ToggleDiv, AccordDiv, ListItem}

\* The driver on a page with an opener button and a region that is a dialog
\* by role or by class, open or closed, holding controls, text or an
\* accordion header: fix(), processDynamicContent, the observers, the timers
\* and the page showing and hiding elements.
Init ==
    /\ elem \in {<<BodyEl, AButton, r, a, b>> :
                   r \in {DialogDiv, ModalDiv},
                   a \in {AButton, PlainDiv, AccordDiv},
                   b \in {AButton, PlainDiv}}
    /\ tabindex \in {<<NoTab, NoTab, NoTab, t, NoTab>> : t \in {NoTab, 0}}
    /\ hiddenStyle \in {<<FALSE, FALSE, h, FALSE, FALSE>> : h \in BOOLEAN}
    /\ ariaHidden = AllOf(FALSE)
    /\ InitEngine

Next ==
    \/ FixCall
    \/ \E c \in {Body, Region} : ScanCall(c)
    \/ ObserverDeliver
    \/ ObserverPass
    \/ \E d \in Nodes : DialogObserverCallback(d)
    \/ FireTimer
    \/ \E n \in {Opener, Region} : UserFocus(n)
    \/ \E n \in {Region, 4}, h \in BOOLEAN : PageSetHidden(n, h)
    \/ TrapCall(Region, TRUE, Opener)

Spec == Init /\ [][Next]_vars

\* The observer after fix(), under the scheduling the event loop guarantees:
\* a queued observer callback is delivered and runs to its end. The page
\* shows and hides the region and its first child a bounded number of times.
LiveInit ==
    /\ elem \in {<<BodyEl, AButton, r, a, AButton>> :
                   r \in {PlainDiv, DialogDiv, ModalDiv}, a \in LeafMarkup}
    /\ tabindex \in {<<NoTab, NoTab, NoTab, t, NoTab>> : t \in {NoTab, -1, 0}}
    /\ hiddenStyle \in {<<FALSE, FALSE, h, FALSE, FALSE>> : h \in BOOLEAN}
    /\ ariaHidden = AllOf(FALSE)
    /\ InitEngine

LiveNext ==
    \/ FixCall
    \/ ObserverDeliver
    \/ ObserverPass
    \/ \E d \in Nodes : DialogObserverCallback(d)
    \/ FireTimer
    \/ \E n \in {Region, 4}, h \in BOOLEAN : PageSetHidden(n, h)

\* the running callback of the observer returns
PassEnds == pass = "running" /\ pass' = "idle"

LiveSpec ==
    /\ LiveInit /\ [][LiveNext]_vars
    /\ WF_vars(ObserverDeliver)
    /\ WF_pass(PassEnds)
    /\ WF_vars(\E d \in Nodes : DialogObserverCallback(d))

\* The focus trap used directly: a region of controls and text, trapped and
\* released by its caller, with the user pressing Tab and Shift+Tab and
\* moving focus, and the page hiding the opener or a member of the region.
TrapInit ==
    /\ elem \in {<<BodyEl, AButton, PlainDiv, AButton, AButton>>,
                 <<BodyEl, AButton, PlainDiv, RoleDiv, AButton>>,
                 <<BodyEl, AButton, PlainDiv, PlainDiv, PlainDiv>>}
    /\ tabindex = AllOf(NoTab)
    /\ hiddenStyle = AllOf(FALSE)
    /\ ariaHidden = AllOf(FALSE)
    /\ InitEngine

TrapNext ==
    \/ \E trigger \in {0, Opener} : TrapCall(Region, TRUE, trigger)
    \/ \E i \in 1 .. MaxTraps : ReleaseCall(i)
    \/ FireTimer
    \/ \E shift \in BOOLEAN : KeyDown(shift)
    \/ \E n \in Nodes : UserFocus(n)
    \/ \E n \in {Opener, 5} : PageSetHidden(n, TRUE)

TrapSpec == TrapInit /\ [][TrapNext]_vars

\* The driver on a page whose dialog is opened and closed by the page, through
\* its style or through aria-hidden, after fix() has installed the observer.
DialogInit ==
    /\ elem \in {<<BodyEl, AButton, r, AButton, b>> :
                   r \in {DialogDiv, ModalDiv}, b \in {AButton, PlainDiv}}
    /\ tabindex = AllOf(NoTab)
    /\ hiddenStyle \in {<<FALSE, FALSE, h, FALSE, FALSE>> : h \in BOOLEAN}
    /\ ariaHidden = AllOf(FALSE)
    /\ InitEngine

DialogNext ==
    \/ FixCall
    \/ ObserverDeliver
    \/ ObserverPass
    \/ \E d \in Nodes : DialogObserverCallback(d)
    \/ FireTimer
    \/ \E h \in BOOLEAN : PageSetHidden(Region, h)
    \/ \E h \in BOOLEAN : PageSetAriaHidden(Region, h)

DialogSpec == DialogInit /\ [][DialogNext]_vars

\* The driver configured with a container: the body, the region, or a selector
\* that matches nothing; requests finish, content events arrive and the page
\* shows and hides a child of the region.
RootInit ==
    /\ elem \in {<<BodyEl, AButton, r, a, AButton>> :
                   r \in {PlainDiv, DialogDiv},
                   a \in {AButton, PlainDiv, ToggleDiv}}
    /\ tabindex \in {<<NoTab, t, NoTab, u, NoTab>> :
                       t \in {NoTab, -1, 5}, u \in {NoTab, 0}}
    /\ hiddenStyle = AllOf(FALSE)
    /\ ariaHidden = AllOf(FALSE)
    /\ container \in {0, Body, Region}
    /\ NoWidgets
    /\ EngineStart

RootNext ==
    \/ FixCall
    \/ FixCallNoContainer
    \/ XhrComplete
    \/ \E target \in {Opener, Region} : ContentEvent(target)
    \/ FireTimer
    \/ FireScanTimer
    \/ ObserverDeliver
    \/ ObserverPass
    \/ \E h \in BOOLEAN : PageSetHidden(4, h)

RootSpec == RootInit /\ [][RootNext]_vars

\* The focus trap on regions with and without a dialog role and a close
\* control, with the user pressing Escape.
DismissInit ==
    /\ elem \in {<<BodyEl, AButton, r, a, AButton>> :
                   r \in {PlainDiv, DialogDiv, AlertDiv, ModalDiv},
                   a \in {AButton, CloseButton}}
    /\ tabindex = AllOf(NoTab)
    /\ hiddenStyle = AllOf(FALSE)
    /\ ariaHidden = AllOf(FALSE)
    /\ InitEngine

DismissNext ==
    \/ \E trigger \in {0, Opener} : TrapCall(Region, TRUE, trigger)
    \/ \E i \in 1 .. MaxTraps : ReleaseCall(i)
    \/ FireTimer
    \/ EscapeKey
    \/ \E shift \in BOOLEAN : KeyDown(shift)
    \/ \E n \in Nodes : UserFocus(n)

DismissSpec == DismissInit /\ [][DismissNext]_vars

\* The observer after fix() while the page inserts and removes elements and
\* shows and hides a child of the region.
ChangeNext ==
    \/ FixCall
    \/ \E added \in BOOLEAN : PageChildList(added)
    \/ \E h \in BOOLEAN : PageSetHidden(4, h)
    \/ ObserverDeliver
    \/ ObserverPass
    \/ FireTimer

ChangeSpec == LiveInit /\ [][ChangeNext]_vars

\* The focus trap on regions whose members carry tabindex attributes: controls
\* and generic containers with a keyboard handler, in order 0 or positive.
BoundaryInit ==
    /\ elem \in {<<BodyEl, AButton, PlainDiv, a, b>> :
                   a \in {AButton, ALink, KeyDiv}, b \in {AButton, KeyDiv}}
    /\ tabindex \in {<<NoTab, NoTab, NoTab, t, u>> :
                       t \in {NoTab, 0, 1, 5}, u \in {NoTab, 0, 1}}
    /\ hiddenStyle = AllOf(FALSE)
    /\ ariaHidden = AllOf(FALSE)
    /\ InitEngine

BoundaryNext ==
    \/ \E trigger \in {0, Opener} : TrapCall(Region, TRUE, trigger)
    \/ \E i \in 1 .. MaxTraps : ReleaseCall(i)
    \/ FireTimer
    \/ \E shift \in BOOLEAN : KeyDown(shift)

BoundarySpec == BoundaryInit /\ [][BoundaryNext]_vars

\* a caller that also uses updateTabbableElements of the handles it holds,
\* while the page takes members out of the region
HandleNext ==
    \/ \E trigger \in {0, Opener} : TrapCall(Region, TRUE, trigger)
    \/ \E i \in 1 .. MaxTraps : ReleaseCall(i)
    \/ \E i \in 1 .. MaxTraps : RefreshCall(i)
    \/ FireTimer
    \/ \E shift \in BOOLEAN : KeyDown(shift)
    \/ \E n \in {4, 5} : PageSetHidden(n, TRUE)

HandleSpec == TrapInit /\ [][HandleNext]_vars

\* The normaliser on every document of the model: any markup, tabindex value
\* and visibility on the region and on its first child.
ScanInit ==
    /\ elem \in {<<BodyEl, AButton, r, a, AButton>> :
                   r \in ContainerMarkup, a \in LeafMarkup}
    /\ tabindex \in {<<NoTab, NoTab, t, u, NoTab>> :
                       t \in TabValues, u \in TabValues}
    /\ hiddenStyle \in {<<FALSE, FALSE, h, g, FALSE>> :
                          h \in BOOLEAN, g \in BOOLEAN}
    /\ ariaHidden \in {<<FALSE, FALSE, h, g, FALSE>> :
                         h \in BOOLEAN, g \in BOOLEAN}
    /\ InitEngine

ScanNext ==
    \/ FixCall
    \/ \E c \in {Body, Region} : ScanCall(c)
    \/ ObserverDeliver
    \/ ObserverPass

ScanSpec == ScanInit /\ [][ScanNext]_vars

\* The prune pass called on every document of the model.
PruneNext == \E c \in {Body, Region} : PruneCall(c)

PruneSpec == ScanInit /\ [][PruneNext]_vars

\* The audit called on every document of the model, before and after fix().
AuditNext ==
    \/ FixCall
    \/ \E c \in {Body, Region} : AuditCall(c)
    \/ ObserverDeliver
    \/ ObserverPass

AuditSpec == ScanInit /\ [][AuditNext]_vars

\* A page whose modal is opened by a trigger wired by setupJspModalHandling
\* and closed by the close control inside it.
JspInit ==
    /\ elem \in {<<BodyEl, AButton, r, CloseButton, b>> :
                   r \in {PlainDiv, ModalDiv}, b \in {AButton, PlainDiv}}
    /\ tabindex = AllOf(NoTab)
    /\ hiddenStyle = AllOf(FALSE)
    /\ ariaHidden = AllOf(FALSE)
    /\ InitEngine

JspNext ==
    \/ TriggerClick
    \/ FireOpenTimer
    \/ \E b \in Nodes : CloseClick(b)
    \/ FireTimer
    \/ \E shift \in BOOLEAN : KeyDown(shift)
    \/ \E n \in Nodes : UserFocus(n)

JspSpec == JspInit /\ [][JspNext]_vars

\* The content-event listeners of fix() on a page with a dialog: events are
\* dispatched on the body and on the dialog, and the page shows and hides the
\* dialog's last child.
EventInit ==
    /\ elem \in {<<BodyEl, AButton, r, AButton, b>> :
                   r \in {DialogDiv, ModalDiv}, b \in {AButton, PlainDiv}}
    /\ tabindex = AllOf(NoTab)
    /\ hiddenStyle = AllOf(FALSE)
    /\ ariaHidden = AllOf(FALSE)
    /\ InitEngine

EventNext ==
    \/ FixCall
    \/ \E target \in {Body, Region} : ContentEvent(target)
    \/ FireScanTimer
    \/ FireTimer
    \/ ObserverDeliver
    \/ ObserverPass
    \/ \E n \in Nodes : UserFocus(n)
    \/ \E h \in BOOLEAN : PageSetHidden(5, h)

EventSpec == EventInit /\ [][EventNext]_vars

\* A page with a wizard of up to MaxSteps steps, some of them disabled, and
\* as many panels as steps or one fewer: fix() and setupJspWizards() in any
\* order, then the user's clicks and keys.
WizardInit ==
    /\ elem = <<BodyEl, AButton, PlainDiv, AButton, AButton>>
    /\ tabindex = AllOf(NoTab)
    /\ hiddenStyle = AllOf(FALSE)
    /\ ariaHidden = AllOf(FALSE)
    /\ container = Body
    /\ combo = NoCombo
    /\ wiz \in {PageWizard(n, p, dis) :
                  n \in 0 .. MaxSteps, p \in 0 .. MaxSteps,
                  dis \in SUBSET (0 .. MaxSteps - 1)}
    /\ wiz.p \in {wiz.n, wiz.n - 1}
    /\ wiz.disabled \subseteq StepIx(wiz)
    /\ EngineStart

WizardNext ==
    \/ FixCall
    \/ SetupJspWizardsCall
    \/ \E k \in 0 .. MaxSteps - 1 : StepClick(k)
    \/ \E k \in 0 .. MaxSteps - 1, key \in WizardKeys : StepKey(k, key)
    \/ \E dir \in {1, -1} : StepButtonClick(dir)

WizardSpec == WizardInit /\ [][WizardNext]_vars

\* A page with an autocomplete input and a list of up to MaxOptions options,
\* shown or hidden by the page's markup: setupAccessibleAutocomplete(), then
\* the user's keys, focus moves and pointer.
ComboInit ==
    /\ elem = <<BodyEl, AButton, PlainDiv, AButton, AButton>>
    /\ tabindex = AllOf(NoTab)
    /\ hiddenStyle = AllOf(FALSE)
    /\ ariaHidden = AllOf(FALSE)
    /\ container = Body
    /\ wiz = NoWizard
    /\ combo \in {PageCombo(n, onFocus, visible) :
                    n \in 0 .. MaxOptions, onFocus \in BOOLEAN,
                    visible \in BOOLEAN}
    /\ EngineStart

ComboNext ==
    \/ SetupAutocompleteCall
    \/ \E key \in ComboKeys : ComboKey(key)
    \/ ComboFocus
    \/ \E toList \in BOOLEAN : ComboBlur(toList)
    \/ FireBlurTimer
    \/ \E i \in 0 .. MaxOptions - 1 : OptionClick(i)
    \/ \E i \in 0 .. MaxOptions - 1 : OptionMouseover(i)

ComboSpec == ComboInit /\ [][ComboNext]_vars

----------------------------------------------------------------------------
(* Claims about the normaliser and the audit, checked under ScanSpec *)

\* a scan has just returned: fix(), processDynamicContent(root) or the
\* observer's pass; last.node is the root it scanned
AfterScan == last.op \in {"scan", "fix", "pass"}

\* C1: scanning twice in succession leaves tabindex and the trap marker of
\* every node after the second scan as they were after the first: in the
\* state a scan has just left, one more scan of the same root changes neither.
C1_ScanIdempotent ==
    last.op = "scan" =>
        LET again == processDynamicContent(World, last.node)
        IN  again.tab = tabindex /\ again.marker = trapMarker

\* C6: after a scan no node inside the scanned root has a tabindex greater
\* than 0, hidden or not, interactive or not.
C6_NoPositiveLeak ==
    AfterScan =>
        \A n \in Descendants(last.node) : tabindex[n] = NoTab \/ tabindex[n] <= 0

\* a hidden node that carried a positive tabindex has been scanned
C6_Witness ==
    /\ last.op = "scan"
    /\ \E n \in Descendants(last.node) :
          pre[n] > 0 /\ hasHiddenParent(n) /\ tabindex[n] = 0

\* C7: after a scan every node that matches the interactive selectors and is
\* neither hidden nor aria-hidden carries a tabindex of 0 or more.
C7_Coverage ==
    AfterScan =>
        \A n \in Descendants(last.node) :
            isInteractiveElement(n) /\ ~shouldBeRemovedFromTabOrder(n)
                => tabindex[n] # NoTab /\ tabindex[n] >= 0

\* C8: after a scan a node that is hidden, by its own style or aria-hidden
\* or by those of an ancestor, is not in the sequence analyzeTabOrder computes.
C8_HiddenNotInOrder ==
    AfterScan =>
        LET order == analyzeTabOrder(tabindex, last.node)
        IN  \A n \in Nodes :
              (\E a \in {n} \cup Ancestors(n) : hiddenStyle[a] \/ ariaHidden[a])
                  => \A i \in 1 .. Len(order) : order[i].element # n

\* the region is hidden, its first child is not hidden itself and carries
\* tabindex 0, and the audit of the body lists the opener
C8_Witness ==
    /\ last.op = "scan" /\ last.node = Body
    /\ hiddenStyle[Region] /\ ~hiddenStyle[4] /\ ~ariaHidden[4]
    /\ tabindex[4] = 0
    /\ Len(analyzeTabOrder(tabindex, Body)) >= 1

\* C10 as stated: a visible link with tabindex -1 and a generic div with
\* tabindex 5 and no role both end a scan with tabindex 0.
C10_LinkAndDivZero ==
    last.op = "scan" =>
        \A l \in Descendants(last.node), d \in Descendants(last.node) :
            /\ elem[l] = ALink /\ pre[l] = -1 /\ ~shouldBeRemovedFromTabOrder(l)
            /\ elem[d] \in {PlainDiv, KeyDiv} /\ pre[d] = 5
            => tabindex[l] = 0 /\ tabindex[d] = 0

\* C10 amended: the link ends with tabindex 0; the div ends with no tabindex
\* attribute at all, unless it carries an inline keyboard handler, and then
\* with tabindex 0.
C10_LinkZeroDivPruned ==
    last.op = "scan" =>
        \A l \in Descendants(last.node), d \in Descendants(last.node) :
            /\ elem[l] = ALink /\ pre[l] = -1 /\ ~shouldBeRemovedFromTabOrder(l)
            /\ elem[d] \in {PlainDiv, KeyDiv} /\ pre[d] = 5
            => /\ tabindex[l] = 0
               /\ tabindex[d] = IF hasKeyboardEventListeners(d) THEN 0 ELSE NoTab

\* the scenario itself: the div (the region) had 5, its child link had -1
C10_Witness ==
    /\ last.op = "scan" /\ last.node = Body
    /\ elem[Region] = PlainDiv /\ pre[Region] = 5
    /\ elem[4] = ALink /\ pre[4] = -1 /\ ~shouldBeRemovedFromTabOrder(4)
    /\ tabindex[4] = 0 /\ tabindex[Region] = NoTab

\* A page with two regions: a panel (node 4) trapped and released by the page
\* through its handle, inside a dialog that the driver arms when it scans.
RaceInit ==
    /\ elem \in {<<BodyEl, AButton, r, PlainDiv, AButton>> :
                   r \in {DialogDiv, ModalDiv}}
    /\ tabindex = AllOf(NoTab)
    /\ hiddenStyle = AllOf(FALSE)
    /\ ariaHidden = AllOf(FALSE)
    /\ InitEngine

RaceNext ==
    \/ \E trigger \in {0, Opener} : TrapCall(4, TRUE, trigger)
    \/ \E i \in 1 .. MaxTraps : ReleaseCall(i)
    \/ ScanCall(Body)
    \/ FireTimer
    \/ \E n \in Nodes : UserFocus(n)

RaceSpec == RaceInit /\ [][RaceNext]_vars

----------------------------------------------------------------------------
(* Claims about the focus trap, checked under TrapSpec *)

\* session i is armed on a region whose tabbable members are [m0 .. mn]:
\* every member can take focus, and the session's boundaries are m0 and mn
ArmedOnMembers(i) ==
    LET s == traps[i]
        members == findTabbableElements(tabindex, s.region)
    IN  /\ s.active
        /\ members # <<>>
        /\ \A k \in 1 .. Len(members) : isFocusable(tabindex, members[k])
        /\ s.first = members[1]
        /\ s.lastEl = members[Len(members)]

ReleasedAndSettled(i) ==
    /\ last.op \in {"init", "restore"} /\ last.sess = i
    /\ timers = <<>>
    /\ ~traps[i].active /\ traps[i].ret
    /\ traps[i].prev # Body

\* C4 as stated: E had focus or was the trigger when the trap was set up to
\* return focus; once the trap has been released and all timers have fired,
\* focus is on E (E is attached in every state of the model), whenever the
\* release came relative to the trap's initial focus move.
C4_FocusRestored ==
    \A i \in 1 .. Len(traps) :
        ReleasedAndSettled(i) => focus = traps[i].prev

\* C4 amended: the same, provided E is still attached and can take focus
\* (it is rendered and is a focusable element).
C4_FocusRestoredIfFocusable ==
    \A i \in 1 .. Len(traps) :
        ReleasedAndSettled(i) /\ isFocusable(tabindex, traps[i].prev)
            => focus = traps[i].prev

\* the opener was the trigger of a trap on a region that starts with a
\* button, the trap was released and focus is back on the opener
C4_Witness ==
    \E i \in 1 .. Len(traps) :
        /\ ReleasedAndSettled(i)
        /\ elem[traps[i].first] = AButton
        /\ traps[i].prev = Opener
        /\ focus = Opener

----------------------------------------------------------------------------
(* Claims about the driver, checked under Spec and LiveSpec *)

\* no change record waits for delivery and no observer callback is running
Quiet ==
    /\ obsPending = 0
    /\ pass = "idle"
    /\ \A d \in Nodes : ~dlgObs[d].pending

\* a step of an observer callback, as opposed to a step of the page, the
\* user, a timer or a caller of the engine
ObserverStep ==
    \/ ObserverDeliver
    \/ ObserverPass
    \/ \E d \in Nodes : DialogObserverCallback(d)

\* C2: the attribute writes of a reconciliation pass do not set off an
\* unbounded chain of passes: once the page, the user, the timers and the
\* callers have stopped acting, the observer's passes come to an end, with no
\* record pending and no pass running.
C2_Quiescence == (<>[][ObserverStep]_vars) => <>[]Quiet

\* C5: a region never carries more than one active trap session, however it
\* was armed: by setupFocusTrap called directly or by detectAndHandleDialogs.
C5_OneSessionPerRegion ==
    \A r \in Nodes :
        Cardinality({i \in 1 .. Len(traps) :
                       traps[i].active /\ traps[i].region = r}) <= 1

\* C9: when the timer of a trap whose region had no tabbable descendant
\* fires, the region, the trap's sole boundary, still armed and displayed,
\* has tabindex 0 and has focus.
C9_EmptyRegionTrap ==
    last.op = "init" =>
        LET s == traps[last.sess]
        IN  (s.active /\ s.first = s.region /\ isRendered(s.region))
                => tabindex[s.region] = 0 /\ focus = s.region

----------------------------------------------------------------------------
(* Further claims about the focus trap, checked under TrapSpec *)

\* C11: remove() called on a trap that is already released is a no-op: it
\* schedules no timer, changes no session and moves no focus.
C11_ReleaseIdempotent ==
    [][\A i \in 1 .. Len(traps) :
          (~traps[i].active /\ last'.op = "release" /\ last'.sess = i)
              => timers' = timers /\ traps' = traps /\ focus' = focus]_vars

\* C12: after the members of a region have changed and updateTabbableElements
\* has been called on its armed trap, the trap's boundaries are the first and
\* last tabbable members the region has now, and the trap is still armed.
C12_RefreshRecomputes ==
    last.op = "refresh" =>
        LET s == traps[last.sess]
            members == findTabbableElements(tabindex, s.region)
        IN  (s.active /\ members # <<>>)
                => s.first = members[1] /\ s.lastEl = members[Len(members)]

\* C13: remove() and updateTabbableElements() of every handle return normally
\* in every state: armed, released, members changed or gone.
C13_HandleTotal ==
    last.op \in {"release", "refresh"} => ~last.flag

----------------------------------------------------------------------------
(* Further claims about the driver, checked under Spec *)

\* C14: however often fix() has been called, one batch of page mutations (the
\* page showing or hiding an element of the observed container) queues
\* exactly one reconciliation pass.
C14_OnePassPerBatch ==
    [][(hiddenStyle' # hiddenStyle /\ obsCount > 0) => obsPending' = 1]_vars

\* region d has an armed trap: a session on d whose keydown listener is on
Armed(d) == \E i \in 1 .. Len(traps) : traps[i].region = d /\ traps[i].active

\* the dialog-like elements under c that are not visually hidden
VisibleDialogs(c) ==
    {d \in Descendants(c) : matchesDialogSelectors(d) /\ ~isVisuallyHidden(d)}

\* C15: on return from fix() and from processDynamicContent(root), every
\* visible dialog-like element under the root has an armed trap.
C15_DiscoveryInEveryScan ==
    last.op \in {"fix", "scan"} => \A d \in VisibleDialogs(last.node) : Armed(d)

\* C16: when an observer pass has run after the page showed or hid a dialog
\* and no observer callback is pending, the dialog has an armed trap exactly
\* if it is neither visually hidden nor marked aria-hidden.
C16_ArmedIffShown ==
    (last.op = "pass" /\ ~Busy) =>
        \A d \in Nodes : matchesDialogSelectors(d) =>
            (Armed(d) <=> ~(isVisuallyHidden(d) \/ ariaHidden[d]))

----------------------------------------------------------------------------
(* Deferred focus moves, checked under TrapSpec *)

\* C17: when the initial-focus timer of a trap fires after the trap has been
\* released, it does not move focus.
C17_ReleasedTickIsCancelled ==
    [][(last'.op = "init" /\ ~traps[last'.sess].active) => focus' = focus]_vars

\* C18: setupFocusTrap leaves the focused element as it is, and when the
\* initial-focus timer of a trap that is still armed fires, focus is on the
\* trap's first boundary member.
C18_DeferredInitialFocus ==
    [][/\ last'.op = "trap" => focus' = focus
       /\ (last'.op = "init" /\ traps[last'.sess].active)
              => focus' = traps[last'.sess].first]_vars

----------------------------------------------------------------------------
(* The tab-order audit, checked under AuditSpec *)

\* the nodes under c that the audit lists
Listed(c) ==
    {n \in Descendants(c) :
        /\ ~shouldBeRemovedFromTabOrder(n)
        /\ \/ tabindex[n] # NoTab /\ tabindex[n] >= 0
           \/ tabindex[n] = NoTab /\ isInteractiveElement(n)}

\* nodes in ascending tabindex, equal values in document order
RECURSIVE ByTabindexThenPosition(_)
ByTabindexThenPosition(S) ==
    IF S = {} THEN <<>>
    ELSE LET m == CHOOSE x \in S : \A y \in S :
                      \/ tabindex[x] < tabindex[y]
                      \/ tabindex[x] = tabindex[y] /\ x <= y
         IN  <<m>> \o ByTabindexThenPosition(S \ {m})

\* the elements of the audit's list, in its order
AuditedElements(c) ==
    [i \in 1 .. Len(analyzeTabOrder(tabindex, c)) |->
        analyzeTabOrder(tabindex, c)[i].element]

\* C19: the audit lists the nodes with tabindex > 0 first, ascending by
\* tabindex and by document position among equals, and then all nodes with
\* tabindex 0 and all unmarked interactive nodes in document order.
C19_AuditOrder ==
    last.op = "audit" =>
        AuditedElements(last.node) =
            ByTabindexThenPosition({n \in Listed(last.node) : tabindex[n] > 0})
            \o InDocOrder({n \in Listed(last.node) : tabindex[n] <= 0})

\* C20: analyzeTabOrder changes no attribute of any node, installs no listener
\* or observer, schedules no timer and moves no focus.
C20_AuditReadOnly ==
    [][last'.op = "audit" => UNCHANGED <<domVars, trapVars, obsVars>>]_vars

\* the audit has run on a document where the normaliser would have written
C20_Witness ==
    /\ last.op = "audit"
    /\ Len(analyzeTabOrder(tabindex, last.node)) >= 3
    /\ normalise(World, last.node).tab # tabindex

----------------------------------------------------------------------------
(* The configured container, checked under RootSpec *)

\* the container and the nodes below it
InContainer == IF container = 0 THEN {} ELSE {container} \cup Descendants(container)

\* C21: every attribute write of fix(), of the observer's pass and of the
\* passes that finished requests and content events set off is on a node
\* inside the configured container.
C21_RootContainment ==
    [][last'.op \in {"fix", "pass", "xhr", "content"} =>
          \A n \in Nodes \ InContainer :
              tabindex'[n] = tabindex[n] /\ trapMarker'[n] = trapMarker[n]]_vars

----------------------------------------------------------------------------
(* The dismiss key, checked under DismissSpec *)

\* the armed regions with a dialog or alertdialog role that hold the focused
\* element and a close control
DismissibleAtFocus ==
    {r \in Nodes :
        /\ Armed(r)
        /\ focus \in Descendants(r) \cup {r}
        /\ elem[r].role \in {"dialog", "alertdialog"}
        /\ closeButton(r) # 0}

\* C22: Escape pressed inside an armed region with role dialog or alertdialog
\* that holds a close control clicks that control, and the key handler itself
\* releases no trap and hides nothing.
C22_DismissKey ==
    [][last'.op = "Escape" =>
          /\ traps' = traps /\ hiddenStyle' = hiddenStyle /\ timers' = timers
          /\ DismissibleAtFocus # {} => last'.flag]_vars

----------------------------------------------------------------------------
(* The prune pass, checked under PruneSpec *)

\* a generic container that carries a tabindex attribute of any value and has
\* neither a role attribute nor a keyboard handler
StrayTabIndex(n) ==
    /\ elem[n].tag \in {"div", "span", "p"}
    /\ tabindex[n] # NoTab
    /\ ~hasRoleAttribute(n)
    /\ ~hasKeyboardEventListeners(n)

\* C23: the prune pass removes the tabindex attribute of a node below its root
\* exactly if the node is a generic container with a tabindex attribute, no
\* role attribute and no keyboard handler; it changes no other node.
C23_PruneIffStray ==
    [][last'.op = "prune" =>
          /\ \A n \in Descendants(last'.node) :
                (tabindex'[n] = NoTab /\ tabindex[n] # NoTab) <=> StrayTabIndex(n)
          /\ \A n \in Nodes : tabindex'[n] \in {tabindex[n], NoTab}]_vars

----------------------------------------------------------------------------
(* The observer's filter, checked under ChangeSpec *)

\* C24: every batch of records the page's changes produce in the model holds a
\* node insertion, a node removal or a change of an observed attribute, so
\* every delivery of a batch starts one reconciliation pass.
C24_ChangeFiltering ==
    [][(obsPending' < obsPending /\ pass = "idle") => pass' = "running"]_vars

----------------------------------------------------------------------------
(* The unresolved container, checked under RootSpec *)

\* C25: fix() with a container selector that matches no node reports the
\* error and does nothing else: no attribute, marker, trap, timer, observer or
\* focus changes.
C25_NoContainerNoOp ==
    [][(last'.op = "fix" /\ container = 0) =>
          last'.flag /\ UNCHANGED <<domVars, trapVars, obsVars>>]_vars

\* fix() has returned without a container on a document that a scan of the
\* body would have changed
C25_Witness ==
    /\ last.op = "fix" /\ container = 0 /\ last.flag
    /\ normalise(World, Body).tab # tabindex

\* C26: while a reconciliation pass of the observer is running, nothing else
\* runs: the next step is the end of that pass, before any timer, event,
\* page change or other callback.
C26_SingleActivePass ==
    [][pass = "running" => (last'.op = "pass" /\ pass' = "idle")]_vars

\* a pass is running while a timer is pending and another observer holds
\* undelivered records
C26_Witness ==
    pass = "running" /\ timers # <<>> /\ obsPending > 0

----------------------------------------------------------------------------
(* Further claims about the normaliser, checked under ScanSpec *)

\* C27: a node below the scanned root that had no tabindex attribute before
\* the scan and is visually hidden, has a hidden ancestor or carries
\* aria-hidden="true" has none after the scan.
C27_HiddenNeverMarked ==
    AfterScan =>
        \A n \in Descendants(last.node) :
            (pre[n] = NoTab /\ shouldBeRemovedFromTabOrder(n))
                => tabindex[n] = NoTab

\* C28: after a scan every node below the root with tabindex -1 is either not
\* an interactive element or is hidden or aria-hidden, and a node that had
\* tabindex -1 before the scan and is hidden or aria-hidden still has -1.
C28_LegitimateExclusions ==
    AfterScan =>
        \A n \in Descendants(last.node) :
            /\ tabindex[n] = -1 =>
                  (~isInteractiveElement(n) \/ shouldBeRemovedFromTabOrder(n))
            /\ (pre[n] = -1 /\ shouldBeRemovedFromTabOrder(n)) => tabindex[n] = -1

----------------------------------------------------------------------------
(* The trap's boundary and the audit, checked under BoundarySpec *)

\* the order the audit is to list the nodes below c in: tabindex > 0 first,
\* ascending, then tabindex 0 and unmarked nodes in document order
ClaimedOrder(c) ==
    ByTabindexThenPosition({n \in Listed(c) : tabindex[n] > 0})
    \o InDocOrder({n \in Listed(c) : tabindex[n] <= 0})

\* C29: when setupFocusTrap returns on a region for which the audit lists at
\* least one node, and lists the nodes in the order claimed for it, the
\* trap's first and last boundary members are the first and the last node of
\* the audit's list for the region.
C29_BoundaryIsAuditedOrder ==
    (/\ last.op = "trap"
     /\ AuditedElements(last.node) # <<>>
     /\ AuditedElements(last.node) = ClaimedOrder(last.node)) =>
        /\ traps[last.sess].first = AuditedElements(last.node)[1]
        /\ traps[last.sess].lastEl =
               AuditedElements(last.node)[Len(AuditedElements(last.node))]

----------------------------------------------------------------------------
(* Traps armed by the driver under content changes, checked under ChangeSpec *)

\* C30: when the observer's pass has run after a change of a dialog's content
\* and no callback is pending, every armed trap that the driver set up has as
\* its boundaries the first and last tabbable member the region has now.
C30_DriverBoundariesCurrent ==
    (last.op = "pass" /\ ~Busy) =>
        \A i \in 1 .. Len(traps) :
            (/\ traps[i].active
             /\ traps[i].by = "driver"
             /\ findTabbableElements(tabindex, traps[i].region) # <<>>) =>
                LET members == findTabbableElements(tabindex, traps[i].region)
                IN  /\ traps[i].first = members[1]
                    /\ traps[i].lastEl = members[Len(members)]

----------------------------------------------------------------------------
(* Claims about a released trap beside a newer one, checked under RaceSpec *)

\* the nodes of region r: r and everything under it
Within(r) == {r} \cup Descendants(r)

\* C31: when a released trap's deferred focus restoration is the last
\* pending tick, it does not take focus out of another region that is armed
\* when it fires: with all ticks fired, focus is still inside that region.
C31_RestoreRespectsNewerTrap ==
    [][(last'.op = "restore" /\ timers' = <<>>)
          => \A r \in Nodes \ {traps[last'.sess].region} :
                (Armed(r) /\ focus \in Within(r)) => focus' \in Within(r)]_vars

----------------------------------------------------------------------------
(* The modal trigger and its close control, checked under JspSpec *)

\* C32: after the close control of a modal has been clicked, no session's
\* keydown listener remains on the modal, however many times the modal was
\* opened before.
C32_ReleaseIsComplete ==
    last.op = "close" =>
        \A i \in 1 .. Len(traps) :
            last.node \in closeButtons(traps[i].region) => ~traps[i].active

----------------------------------------------------------------------------
(* The self-boundary of an empty region, checked under Spec *)

\* C33: while a trap whose sole boundary member is the region itself is
\* armed on a displayed region, the region has a tabindex of 0 or more,
\* whatever reconciliation passes have run since the trap was armed.
C33_SelfBoundaryStaysFocusable ==
    \A i \in 1 .. Len(traps) :
        (traps[i].active /\ traps[i].first = traps[i].region
           /\ isRendered(traps[i].region))
            => tabindex[traps[i].region] >= 0

----------------------------------------------------------------------------
(* The root of a scan, checked under RootSpec *)

\* C34: when the deferred processing of a content event has run on the
\* event's target, the target itself has been treated like its descendants:
\* a tabindex above 0 on it has become 0, and if it is a dialog-like element
\* that is not visually hidden it has an armed trap.
C34_RootTreatedLikeDescendants ==
    last.op = "content" =>
        /\ pre[last.node] > 0 => tabindex[last.node] = 0
        /\ (matchesDialogSelectors(last.node) /\ ~isVisuallyHidden(last.node))
              => Armed(last.node)

----------------------------------------------------------------------------
(* Focus moves after content events, checked under EventSpec *)

\* C35: when the deferred processing of a content event moves focus while a
\* region is armed, focus lands inside that region.
C35_EventFocusRespectsTrap ==
    [][(last'.op = "content" /\ focus' # focus)
          => \A r \in Nodes : Armed(r) => focus' \in Within(r)]_vars

----------------------------------------------------------------------------
(* The wizard, checked under WizardSpec *)

\* the step asked for the index after (before) the current one, through a
\* next (previous) button or the ArrowDown (ArrowUp) key, and there is none
OutOfRangeRequest ==
    \/ last'.op \in {"next", "ArrowDown"} /\ wiz.processed /\ wiz.cur + 1 >= wiz.n
    \/ last'.op \in {"prev", "ArrowUp"} /\ wiz.processed /\ wiz.cur - 1 < 0

\* C36 as stated: once setupJspWizards has run, currentStepIndex is within
\* [0, steps.length - 1] after every click and key, and a request for an
\* index outside that range changes nothing of the wizard.
C36_IndexInRange ==
    [][/\ wiz'.processed => wiz'.cur \in 0 .. wiz'.n - 1
       /\ OutOfRangeRequest => wiz' = wiz]_vars

\* C36: for a wizard with at least one step, once setupJspWizards has run,
\* currentStepIndex is within [0, steps.length - 1] after every click and
\* key, and a request for an index outside that range changes nothing of the
\* wizard: index, step classes, panel visibility, announcement.
C36_IndexInRangeWithSteps ==
    [][/\ (wiz'.processed /\ wiz'.n >= 1) => wiz'.cur \in 0 .. wiz'.n - 1
       /\ OutOfRangeRequest => wiz' = wiz]_vars

\* the next button was clicked on the last of several steps
C36_Witness ==
    /\ last.op = "next" /\ last.flag
    /\ wiz.n >= 2 /\ wiz.cur = wiz.n - 1

\* the wizard's view shows step wiz.cur: one panel with aria-hidden="false"
\* and one step with aria-selected="true", both at that index, every earlier
\* step of class completed, the live region reading "Step cur+1 of n"
ViewMatchesState ==
    /\ {i \in PanelIx(wiz) : wiz.hid[i] = "false"} = {wiz.cur}
    /\ {i \in StepIx(wiz) : wiz.sel[i] = "true"} = {wiz.cur}
    /\ \A i \in StepIx(wiz) : i < wiz.cur => "completed" \in wiz.cls[i]
    /\ wiz.say = <<wiz.cur + 1, wiz.n>>

\* C37 as stated: for a wizard with as many panels as steps, once
\* setupJspWizards has run the view shows the current step.
C37_ViewMatchesState ==
    (wiz.processed /\ wiz.p = wiz.n) => ViewMatchesState

\* C37: for a wizard with at least one step and as many panels as steps,
\* after setupJspWizards has run and after every click and key, exactly one
\* panel has aria-hidden="false" and exactly one step aria-selected="true",
\* both at currentStepIndex, every earlier step is of class completed and
\* the live region reads "Step currentStepIndex+1 of steps.length".
C37_ViewMatchesStateWithSteps ==
    (wiz.processed /\ wiz.p = wiz.n /\ wiz.n >= 1) => ViewMatchesState

\* the third step of three was reached with the next button
C37_Witness ==
    /\ wiz.processed /\ wiz.p = wiz.n /\ wiz.n = 3
    /\ last.op = "next" /\ ~last.flag /\ wiz.cur = 2

\* C38: once fix() and setupJspWizards() have both run, one ArrowRight
\* (ArrowLeft) key press on the current step changes currentStepIndex by
\* exactly +1 (-1) when that index is the index of a step.
C38_OneArrowOneStep ==
    [][(/\ last'.op \in {"ArrowRight", "ArrowLeft"}
        /\ last'.node = wiz.cur
        /\ wiz.processed /\ wiz.keys >= 1)
          => LET target == wiz.cur + (IF last'.op = "ArrowRight" THEN 1 ELSE -1)
             IN  target \in StepIx(wiz) => wiz'.cur = target]_vars

----------------------------------------------------------------------------
(* The autocomplete, checked under ComboSpec *)

\* C39: once setupAccessibleAutocomplete has run, whenever the list is
\* collapsed (aria-expanded is "false" and the list is not displayed) the
\* active index is -1, the input has no aria-activedescendant and no option
\* has aria-selected="true"; and aria-activedescendant, when present, names
\* the option at the active index.
C39_CollapsedStateClean ==
    combo.processed =>
        /\ (combo.expanded = "false" /\ ~combo.shown) =>
              /\ combo.active = -1
              /\ combo.ad = -1
              /\ \A i \in OptionIx(combo) : combo.sel[i] # "true"
        /\ combo.ad # -1 => combo.ad = combo.active

====
